---- MODULE Spec2Model ----
(***************************************************************************)
(* Model of the merge package of gutolog-dash: the three workbook          *)
(* extractors (read_base_valores, read_calculo_frete, read_cotacao) and    *)
(* merge_all.  A workbook is a set of sheets, a sheet a grid of cells, a   *)
(* DataFrame a set of column names with a sequence of rows.                *)
(***************************************************************************)
EXTENDS Integers, Sequences, FiniteSets, TLC

VARIABLES files, pc, ret, arg

vars == <<files, pc, ret, arg>>

(***************************************************************************)
(* Bounds of the model.                                                    *)
(***************************************************************************)
\* km cells hold the numbers 0..MaxKm
MaxKm == 2
\* data rows per sheet
MaxRows == 1

\* characters of a label after its prefix
MaxLabel == 2

(***************************************************************************)
(* Cells.  A cell read by pandas is a number, a string, NaN (a blank       *)
(* cell), None or True.                                                    *)
(***************************************************************************)
Num(n) == [k |-> "num", n |-> n, s |-> ""]
Str(s) == [k |-> "str", n |-> 0, s |-> s]
NaN == [k |-> "nan", n |-> 0, s |-> ""]
None == [k |-> "none", n |-> 0, s |-> ""]
True == [k |-> "bool", n |-> 1, s |-> ""]

\* pd.isna / pd.notna
isna(x) == x.k \in {"nan", "none"}
notna(x) == ~isna(x)

\* float(x) returns for a number and for NaN; it raises ValueError for a
\* non-numeric string and TypeError for None
FloatOk(x) == x.k \in {"num", "nan"}
Float(x) == IF x.k = "num" THEN x ELSE NaN

\* float arithmetic: NaN propagates
Sub(a, b) == IF a.k = "num" /\ b.k = "num" THEN Num(a.n - b.n) ELSE NaN
Add1(a) == IF a.k = "num" THEN Num(a.n + 1) ELSE NaN
\* a >= b on floats: false when either side is NaN
Geq(a, b) == a.k = "num" /\ b.k = "num" /\ a.n >= b.n

\* s.strip() on the labels of the model
strip(s) ==
  CASE s = " VAN - CARGA SECA " -> "VAN - CARGA SECA"
    [] s = " " -> ""
    [] OTHER -> s

\* str(x) of a cell
str(x) ==
  CASE x.k = "str" -> x.s
    [] x.k = "num" -> ToString(x.n)
    [] x.k = "nan" -> "nan"
    [] x.k = "none" -> "None"
    [] OTHER -> "True"

\* _num(x): None for a missing cell and for a cell float() rejects; the
\* None is stored in the frame as a missing value
_num(x) == IF isna(x) THEN NaN ELSE IF x.k = "num" THEN x ELSE NaN

(***************************************************************************)
(* Sequences.                                                              *)
(***************************************************************************)
RECURSIVE Flatten(_)
Flatten(ss) == IF ss = <<>> THEN <<>> ELSE Head(ss) \o Flatten(Tail(ss))

Map(s, Op(_)) == [i \in 1..Len(s) |-> Op(s[i])]

Range(s) == {s[i] : i \in 1..Len(s)}

Reverse(s) == [i \in 1..Len(s) |-> s[Len(s) + 1 - i]]

SeqsUpTo(S, n) == UNION {[1..m -> S] : m \in 0..n}

(***************************************************************************)
(* Vehicle Normalizer (vehicle_mapping.py).                                *)
(***************************************************************************)
CANONICAL_VEHICLES ==
  << "CARRETA 5 EIXOS - CARGA SECA", "CARRETA 5 EIXOS - REFRIGERADA",
     "CARRETA 6 EIXOS - CARGA SECA", "CARRETA 6 EIXOS - REFRIGERADA",
     "FIORINO - CARGA SECA", "LEVE - CARGA SECA", "LEVE - REFRIGERADO",
     "TOCO - CARGA SECA", "TOCO - REFRIGERADO", "TRUCK - CARGA SECA",
     "TRUCK - REFRIGERADO", "VAN - CARGA SECA", "VAN - REFRIGERADA" >>

Canonical == Range(CANONICAL_VEHICLES)

\* Sheet name -> canonical vehicle (for per-vehicle sheets)
SHEET_TO_VEHICLE ==
  [ FIORINO_CS |-> "FIORINO - CARGA SECA",
    FIORINO_CS_AG |-> "FIORINO - CARGA SECA",
    VAN_CS |-> "VAN - CARGA SECA",
    LEVE_CS |-> "LEVE - CARGA SECA",
    TOCO_CS |-> "TOCO - CARGA SECA",
    TRUCK_CS |-> "TRUCK - CARGA SECA",
    CTA5_CS |-> "CARRETA 5 EIXOS - CARGA SECA",
    CTA6_CS |-> "CARRETA 6 EIXOS - CARGA SECA",
    VAN_CR |-> "VAN - REFRIGERADA",
    LEVE_CR |-> "LEVE - REFRIGERADO",
    TOCO_CR |-> "TOCO - REFRIGERADO",
    TRUCK_CR |-> "TRUCK - REFRIGERADO",
    CTA5_CR |-> "CARRETA 5 EIXOS - REFRIGERADA",
    CTA6_CR |-> "CARRETA 6 EIXOS - REFRIGERADA" ]

\* the absent result of normalize_vehicle
Unresolved == ""

\* normalize(raw_label): the canonical type of an exact match, of a
\* sheet-name style code and of a casing variant; absent otherwise
normalize_vehicle(raw) ==
  CASE raw \in Canonical -> raw
    [] raw \in DOMAIN SHEET_TO_VEHICLE -> SHEET_TO_VEHICLE[raw]
    [] raw = "van - carga seca" -> "VAN - CARGA SECA"
    [] OTHER -> Unresolved

(***************************************************************************)
(* DataFrames: the column names and the rows, each row a function from     *)
(* the column names to cells.                                              *)
(***************************************************************************)
EmptyFrame == [cols |-> {}, rows |-> <<>>]

\* pd.DataFrame(list of dicts): the columns are the union of the keys, a
\* key a dict does not hold is NaN
DataFrame(dicts) ==
  LET cols == UNION {DOMAIN dicts[i] : i \in 1..Len(dicts)}
  IN  [cols |-> cols,
       rows |-> [i \in 1..Len(dicts) |->
                  [c \in cols |-> IF c \in DOMAIN dicts[i] THEN dicts[i][c] ELSE NaN]]]

\* df.empty
empty(df) == df.rows = <<>> \/ df.cols = {}

\* df[c] = value
SetCol(df, c, v) ==
  [cols |-> df.cols \cup {c},
   rows |-> [i \in 1..Len(df.rows) |->
              [d \in df.cols \cup {c} |-> IF d = c THEN v ELSE df.rows[i][d]]]]

KeyCols == {"vehicle_type", "km_inicial", "km_final"}

Key(r) == <<r["vehicle_type"], r["km_inicial"], r["km_final"]>>

(***************************************************************************)
(* read_calculo_frete.  The workbook: sheets, in the workbook's order,     *)
(* each [name, ncols, rows] with rows the grid rows from index 0, each a   *)
(* function from 0..ncols-1 to cells.                                      *)
(***************************************************************************)
idx_km_inicial == 9
idx_km_final == 10
idx_km_total == 11
idx_mensal == 4
idx_por_km == 5
idx_diario == 6
idx_frete_entrega == 18
idx_frete_retorno == 19
idx_frete_viagem == 20

\* the sheets of a workbook named nm (pd.read_excel raises ValueError when
\* there is none)
HasSheet(wb, nm) == \E i \in 1..Len(wb.sheets) : wb.sheets[i].name = nm
Sheet(wb, nm) ==
  wb.sheets[CHOOSE i \in 1..Len(wb.sheets) : wb.sheets[i].name = nm]

\* lines 43-44: the sheet is read when it has 2 rows and 12 columns
CfSheetRead(sh) ==
  /\ sh.name \in DOMAIN SHEET_TO_VEHICLE
  /\ ~(Len(sh.rows) < 2 \/ sh.ncols < 12)

\* lines 59-66: the row's three km cells convert and the bounds are present
CfRowKept(row) ==
  /\ FloatOk(row[idx_km_inicial])
  /\ FloatOk(row[idx_km_final])
  /\ FloatOk(row[idx_km_total])
  /\ ~(isna(Float(row[idx_km_inicial])) \/ isna(Float(row[idx_km_final])))

\* lines 67-78
CfRowDict(vehicle, row) ==
  [ vehicle_type |-> Str(vehicle),
    km_inicial |-> Float(row[idx_km_inicial]),
    km_final |-> Float(row[idx_km_final]),
    km_total |-> Float(row[idx_km_total]),
    valor_dia_util_calculo |-> _num(row[idx_diario]),
    mensal_calculo |-> _num(row[idx_mensal]),
    por_km_calculo |-> _num(row[idx_por_km]),
    frete_peso_entrega |-> _num(row[idx_frete_entrega]),
    frete_peso_retorno |-> _num(row[idx_frete_retorno]),
    frete_peso_viagem |-> _num(row[idx_frete_viagem]) ]

\* lines 57-79 for one sheet: the dicts of its rows 1.., in order
CfSheetDicts(sh) ==
  LET kept == SelectSeq(Tail(sh.rows), CfRowKept)
  IN  [i \in 1..Len(kept) |-> CfRowDict(SHEET_TO_VEHICLE[sh.name], kept[i])]

\* row.iloc[idx_frete_viagem] of a kept row raises IndexError on a sheet of
\* 12 to 20 columns (the index is read outside the try)
CfSheetRaises(sh) ==
  /\ CfSheetRead(sh)
  /\ sh.ncols <= idx_frete_viagem
  /\ \E i \in 2..Len(sh.rows) : CfRowKept(sh.rows[i])

\* lines 38-79
CfPerSheetRows(wb) ==
  Flatten([i \in 1..Len(wb.sheets) |->
            IF CfSheetRead(wb.sheets[i]) THEN CfSheetDicts(wb.sheets[i]) ELSE <<>>])

GERAL == "FRETE PESO - GERAL"

\* line 97: the columns c = 4, 7, ... with c + 2 < shape[1]
GeralGroups(ncols) ==
  LET n == IF 4 + 2 < ncols THEN (ncols - 4) \div 3 ELSE 0
  IN  [g \in 1..n |-> 4 + 3 * (g - 1)]

\* lines 90-95
GeralRowKept(row) == FloatOk(row[1]) /\ FloatOk(row[2]) /\ FloatOk(row[3])

\* lines 98-101: the normalized vehicle of the group at column c, or absent
GeralVehicle(sh, c) ==
  LET vehicle_name == sh.rows[3][c + 1]
  IN  IF notna(vehicle_name) /\ vehicle_name.k = "str"
      THEN normalize_vehicle(strip(vehicle_name.s))
      ELSE Unresolved

\* lines 102-113
GeralRowDicts(sh, row) ==
  LET cs == SelectSeq(GeralGroups(sh.ncols), LAMBDA c : GeralVehicle(sh, c) # Unresolved)
  IN  [j \in 1..Len(cs) |->
        [ vehicle_type |-> Str(GeralVehicle(sh, cs[j])),
          km_inicial |-> Float(row[1]),
          km_final |-> Float(row[2]),
          km_total |-> Float(row[3]),
          valor_dia_util_calculo |-> _num(row[cs[j]]),
          frete_peso_entrega |-> _num(row[cs[j]]),
          frete_peso_retorno |-> _num(row[cs[j] + 1]),
          frete_peso_viagem |-> _num(row[cs[j] + 2]) ]]

\* lines 84-114
GeralRows(sh) ==
  IF Len(sh.rows) >= 4 /\ sh.ncols >= 5
  THEN LET kept == SelectSeq(SubSeq(sh.rows, 5, Len(sh.rows)), GeralRowKept)
       IN  Flatten([i \in 1..Len(kept) |-> GeralRowDicts(sh, kept[i])])
  ELSE <<>>

\* line 81: the consolidated sheet is read when the per-vehicle layout
\* yielded no row
CfReadsGeral(wb) == CfPerSheetRows(wb) = <<>>

\* read_calculo_frete(path): [raised, main]
read_calculo_frete(wb) ==
  IF \E i \in 1..Len(wb.sheets) : CfSheetRaises(wb.sheets[i])
  THEN [raised |-> TRUE, main |-> EmptyFrame]
  ELSE IF ~CfReadsGeral(wb)
  THEN [raised |-> FALSE, main |-> DataFrame(CfPerSheetRows(wb))]
  ELSE IF ~HasSheet(wb, GERAL)
  THEN [raised |-> TRUE, main |-> EmptyFrame]
  ELSE [raised |-> FALSE, main |-> DataFrame(GeralRows(Sheet(wb, GERAL)))]

(***************************************************************************)
(* DataFrame.merge(right, on, how, suffixes = ("", "_dup")).               *)
(***************************************************************************)
OnKey(r, on) == [c \in on |-> r[c]]

\* the name of the right frame's column c in the result
RightName(left, on, c) == IF c \in left.cols \ on THEN c \o "_dup" ELSE c

MergedCols(left, right, on) ==
  left.cols \cup {RightName(left, on, c) : c \in right.cols \ on}

\* the result row of left row l and right row r; hasL / hasR say which side
\* is there, the side that is not gives NaN
MergedRow(left, right, on, l, hasL, r, hasR) ==
  [d \in MergedCols(left, right, on) |->
    IF d \in left.cols
    THEN IF hasL THEN l[d] ELSE IF d \in on THEN r[d] ELSE NaN
    ELSE LET c == CHOOSE c \in right.cols \ on : RightName(left, on, c) = d
         IN  IF hasR THEN r[c] ELSE NaN]

Matches(rows, on, k) == SelectSeq(rows, LAMBDA r : OnKey(r, on) = k)

\* the rows of one left row: one per matching right row, in the right
\* frame's order, or the left row alone
LeftRowJoined(left, right, on, l) ==
  LET ms == Matches(right.rows, on, OnKey(l, on))
  IN  IF ms = <<>>
      THEN << MergedRow(left, right, on, l, TRUE, l, FALSE) >>
      ELSE [j \in 1..Len(ms) |-> MergedRow(left, right, on, l, TRUE, ms[j], TRUE)]

\* the distinct keys of rows, in the order they first appear
RECURSIVE FirstKeys(_, _, _)
FirstKeys(rows, on, seen) ==
  IF rows = <<>> THEN <<>>
  ELSE IF OnKey(Head(rows), on) \in seen THEN FirstKeys(Tail(rows), on, seen)
  ELSE << OnKey(Head(rows), on) >>
         \o FirstKeys(Tail(rows), on, seen \cup {OnKey(Head(rows), on)})

\* how = "left": the left frame's rows in order
merge_left(left, right, on) ==
  [cols |-> MergedCols(left, right, on),
   rows |-> Flatten([i \in 1..Len(left.rows) |->
                      LeftRowJoined(left, right, on, left.rows[i])])]

\* how = "left" in place of how = "outer"
merge_outer_as_left(left, right, on) == merge_left(left, right, on)

\* how = "outer": the rows of one key stay in left-major order (each left
\* row with its matching right rows); keys only the right frame holds
\* follow.  Missing keys match each other.  The order between the keys is
\* the order of first appearance.
merge_outer(left, right, on) ==
  LET lkeys == FirstKeys(left.rows, on, {})
      rkeys == FirstKeys(right.rows, on, Range(lkeys))
      ofLeft(k) == Flatten(Map(Matches(left.rows, on, k),
                               LAMBDA l : LeftRowJoined(left, right, on, l)))
      ofRight(k) == Map(Matches(right.rows, on, k),
                        LAMBDA r : MergedRow(left, right, on, r, FALSE, r, TRUE))
  IN  [cols |-> MergedCols(left, right, on),
       rows |-> Flatten(Map(lkeys, ofLeft)) \o Flatten(Map(rkeys, ofRight))]

\* df.drop(columns = cs)
drop(df, cs) ==
  [cols |-> df.cols \ cs,
   rows |-> [i \in 1..Len(df.rows) |-> [c \in df.cols \ cs |-> df.rows[i][c]]]]

\* s.endswith(suffix)
endswith(s, suffix) ==
  Len(s) >= Len(suffix) /\ SubSeq(s, Len(s) - Len(suffix) + 1, Len(s)) = suffix

\* sub in s, for the substrings the extractors look for
RECURSIVE contains(_, _)
contains(s, sub) ==
  /\ Len(s) >= Len(sub)
  /\ \/ SubSeq(s, 1, Len(sub)) = sub
     \/ contains(SubSeq(s, 2, Len(s)), sub)

(***************************************************************************)
(* pd.read_excel(header = 0): row 0 names the columns.  A blank header is  *)
(* named "Unnamed: <i>" and a repeated name gets ".<count>".               *)
(***************************************************************************)
RawName(row0, i) == IF isna(row0[i]) THEN "Unnamed: " \o ToString(i) ELSE str(row0[i])

ColumnNames(sh) ==
  LET row0 == sh.rows[1]
  IN  [i \in 0..(sh.ncols - 1) |->
        LET before == Cardinality({j \in 0..(i - 1) : RawName(row0, j) = RawName(row0, i)})
        IN  IF before = 0 THEN RawName(row0, i)
            ELSE RawName(row0, i) \o "." \o ToString(before)]

\* row.get(name): the cell of the column named name, None without it
Get(names, row, name) ==
  IF \E i \in DOMAIN names : names[i] = name
  THEN row[CHOOSE i \in DOMAIN names : names[i] = name]
  ELSE None

(***************************************************************************)
(* read_cotacao.                                                           *)
(***************************************************************************)
COTACAO == "COTAÇÃO"
BASE == "BASE"
FRETE_PESO == "FRETE_PESO"

ContextScanRows == 20

\* lines 25-42 for one row: the context after the row
CotContextStep(context, sh, row) ==
  LET label == row[0]
      val == IF sh.ncols > 1 THEN row[1] ELSE None
      s == strip(str(label))
      set(key, v) == [f \in DOMAIN context \cup {key} |-> IF f = key THEN v ELSE context[f]]
  IN  IF isna(label) THEN context
      ELSE IF s = "Nº"
      THEN set("numero_cotacao", IF notna(row[2]) THEN Str(str(row[2])) ELSE None)
      ELSE IF s = "Data:" /\ notna(val) THEN set("data_cotacao", val)
      ELSE IF s = "Revisão:" /\ notna(row[3]) THEN set("revisao", row[3])
      ELSE IF s = "Cliente:" /\ notna(val) THEN set("cliente", val)
      ELSE IF s = "Origem:" /\ notna(val) THEN set("origem", val)
      ELSE IF s = "Destino:" /\ notna(val) THEN set("destino", val)
      ELSE IF contains(s, "Km") /\ notna(val) THEN set("km_rota", val)
      ELSE context

\* df_cot.iloc[r, 0], [r, 2] or [r, 3] past the sheet's width: IndexError
CotContextRaises(sh) ==
  \E i \in 1..Len(sh.rows) :
    /\ i <= ContextScanRows
    /\ \/ sh.ncols < 1
       \/ /\ notna(sh.rows[i][0])
          /\ \/ strip(str(sh.rows[i][0])) = "Nº" /\ sh.ncols < 3
             \/ strip(str(sh.rows[i][0])) = "Revisão:" /\ sh.ncols < 4

RECURSIVE CotContextScan(_, _, _)
CotContextScan(context, sh, rows) ==
  IF rows = <<>> THEN context
  ELSE CotContextScan(CotContextStep(context, sh, Head(rows)), sh, Tail(rows))

\* lines 22-43: the dict of the first 20 rows, as a frame of one row
CotContext(sh) ==
  LET n == IF Len(sh.rows) < ContextScanRows THEN Len(sh.rows) ELSE ContextScanRows
  IN  DataFrame(<< CotContextScan(<<>>, sh, SubSeq(sh.rows, 1, n)) >>)

NonVehicleRows ==
  {"MERCADORIAS", "CARGA GERAL", "PRODUTO QUÍMICO", "MEDICAMENTOS", "ALIMENTOS"}

\* str.upper() of the column names the model uses
upper(s) ==
  CASE s = "Tipos de Veículo" -> "TIPOS DE VEÍCULO"
    [] OTHER -> s

\* lines 47-48
BaseNameCol(names) ==
  LET base_cols == {i \in DOMAIN names :
                      contains(upper(names[i]), "TIPOS") \/ contains(names[i], "VEÍCULO")}
  IN  IF base_cols # {} THEN CHOOSE i \in base_cols : \A j \in base_cols : i <= j
      ELSE 0

\* line 52
BaseRowKept(v_name) ==
  ~(isna(v_name) \/ strip(str(v_name)) \in NonVehicleRows)

\* lines 54-63: the label that does not resolve is kept as it is
BaseRowDict(names, row, v_name) ==
  LET n == normalize_vehicle(strip(str(v_name)))
      v == IF n = Unresolved THEN strip(str(v_name)) ELSE n
  IN  [ vehicle_type |-> Str(v),
        peso_maximo_cotacao |-> _num(Get(names, row, "PESO MÁXIMO")),
        diaria_cotacao |-> _num(Get(names, row, "DIÁRIA")),
        valor_hora_cotacao |-> _num(Get(names, row, "VALOR / HORA")),
        eixos_cotacao |-> _num(Get(names, row, "EIXOS")) ]

\* lines 46-64: df_vehicle_base
VehicleBase(sh) ==
  LET names == ColumnNames(sh)
      name_col == BaseNameCol(names)
      kept == SelectSeq(Tail(sh.rows), LAMBDA row : BaseRowKept(row[name_col]))
  IN  DataFrame([i \in 1..Len(kept) |-> BaseRowDict(names, kept[i], kept[i][name_col])])

\* df_base.columns[0] of a sheet without a header row: IndexError
BaseRaises(sh) == Len(sh.rows) = 0 \/ sh.ncols = 0

\* lines 80-87: the row's km cells are there and convert, the bounds are present
FpRowKept(sh, row) ==
  /\ sh.ncols > 3
  /\ FloatOk(row[1]) /\ FloatOk(row[2]) /\ FloatOk(row[3])
  /\ ~(isna(Float(row[1])) \/ isna(Float(row[2])))

\* lines 89-93: the normalized vehicle of column c, or absent
FpVehicle(header_row, c) ==
  LET col_name == header_row[c]
  IN  IF isna(col_name) \/ strip(str(col_name)) = "" THEN Unresolved
      ELSE normalize_vehicle(strip(str(col_name)))

\* lines 88-101
FpRowDicts(sh, row) ==
  LET header_row == sh.rows[2]
      cs == SelectSeq([j \in 1..(sh.ncols - 4) |-> j + 3],
                      LAMBDA c : FpVehicle(header_row, c) # Unresolved)
  IN  [j \in 1..Len(cs) |->
        [ vehicle_type |-> Str(FpVehicle(header_row, cs[j])),
          km_inicial |-> Float(row[1]),
          km_final |-> Float(row[2]),
          km_total |-> Float(row[3]),
          frete_peso_total_cotacao |-> _num(row[cs[j]]) ]]

\* lines 77-101: long_rows
FpLongRows(sh) ==
  LET kept == SelectSeq(SubSeq(sh.rows, 3, Len(sh.rows)), LAMBDA row : FpRowKept(sh, row))
  IN  Flatten([i \in 1..Len(kept) |-> FpRowDicts(sh, kept[i])])

\* lines 71-73 and 107-109: the base rows with null band columns
NullBands(df) ==
  SetCol(SetCol(SetCol(df, "km_inicial", None), "km_final", None), "km_total", None)

\* lines 69-74: the sheet has fewer than 2 rows
CotShortMain(df_vehicle_base) ==
  IF ~empty(df_vehicle_base) THEN NullBands(df_vehicle_base) ELSE EmptyFrame

\* lines 102-110
CotMain(long_rows, df_vehicle_base) ==
  SetCol(IF long_rows # <<>>
         THEN merge_left(DataFrame(long_rows), df_vehicle_base, {"vehicle_type"})
         ELSE NullBands(df_vehicle_base),
         "source", Str("COTAÇÃO"))

\* the quotation extractor's fallback: the per-vehicle base rows alone
CotFallback(wb) ==
  Len(Sheet(wb, FRETE_PESO).rows) < 2 \/ FpLongRows(Sheet(wb, FRETE_PESO)) = <<>>

\* a sheet read_cotacao reads is missing (ValueError), a cell is past the
\* sheet's width (IndexError), or the band rows are merged with a base table
\* that has no vehicle_type column (KeyError)
CotRaises(wb) ==
  \/ ~HasSheet(wb, COTACAO)
  \/ CotContextRaises(Sheet(wb, COTACAO))
  \/ ~HasSheet(wb, BASE)
  \/ BaseRaises(Sheet(wb, BASE))
  \/ ~HasSheet(wb, FRETE_PESO)
  \/ /\ ~CotFallback(wb)
     /\ "vehicle_type" \notin VehicleBase(Sheet(wb, BASE)).cols

\* read_cotacao(path): [raised, main, context]
read_cotacao(wb) ==
  IF CotRaises(wb)
  THEN [raised |-> TRUE, main |-> EmptyFrame, context |-> EmptyFrame]
  ELSE [raised |-> FALSE,
        main |-> IF Len(Sheet(wb, FRETE_PESO).rows) < 2
                 THEN CotShortMain(VehicleBase(Sheet(wb, BASE)))
                 ELSE CotMain(FpLongRows(Sheet(wb, FRETE_PESO)),
                              VehicleBase(Sheet(wb, BASE))),
        context |-> CotContext(Sheet(wb, COTACAO))]

(***************************************************************************)
(* read_base_valores.                                                      *)
(***************************************************************************)
VIAGEM == "VIAGEM"
REL == "RELAÇÃO % FRETE IDA"

DefaultDiasUteis == 24
SlugLen == 50

\* str.lower() of one character
lower(ch) ==
  CASE ch = "A" -> "a" [] ch = "B" -> "b" [] ch = "C" -> "c" [] ch = "D" -> "d"
    [] ch = "E" -> "e" [] ch = "F" -> "f" [] ch = "G" -> "g" [] ch = "H" -> "h"
    [] ch = "I" -> "i" [] ch = "J" -> "j" [] ch = "K" -> "k" [] ch = "L" -> "l"
    [] ch = "M" -> "m" [] ch = "N" -> "n" [] ch = "O" -> "o" [] ch = "P" -> "p"
    [] ch = "Q" -> "q" [] ch = "R" -> "r" [] ch = "S" -> "s" [] ch = "T" -> "t"
    [] ch = "U" -> "u" [] ch = "V" -> "v" [] ch = "W" -> "w" [] ch = "X" -> "x"
    [] ch = "Y" -> "y" [] ch = "Z" -> "z" [] ch = "Ã" -> "ã" [] ch = "Ç" -> "ç"
    [] ch = "Ô" -> "ô" [] ch = "Í" -> "í" [] ch = "Ú" -> "ú" [] ch = "É" -> "é"
    [] OTHER -> ch

\* the characters of a string, and the string of a sequence of strings
Chars(s) == [i \in 1..Len(s) |-> SubSeq(s, i, i)]

RECURSIVE Join(_)
Join(ss) == IF ss = <<>> THEN "" ELSE Head(ss) \o Join(Tail(ss))

MapChars(s, Op(_)) == Join(Map(Chars(s), Op))

\* s.replace(old, new) for a single character old
replace(s, old, new) == MapChars(s, LAMBDA ch : IF ch = old THEN new ELSE ch)

\* lines 188-199
_slug(s) ==
  LET r == replace(replace(replace(replace(replace(replace(replace(replace(
             MapChars(s, lower), " ", "_"), "%", "pct"), "/", "_"), "(", ""),
             ")", ""), "-", "_"), ":", ""), ".", "")
  IN  IF Len(r) > SlugLen THEN SubSeq(r, 1, SlugLen) ELSE r

\* lines 24-30: the rows of VIAGEM from the first one labelled DIAS ÚTEIS:
RECURSIVE DiasUteisRows(_)
DiasUteisRows(rows) ==
  IF rows = <<>> THEN <<>>
  ELSE IF Head(rows)[0] = Str("DIAS ÚTEIS:") THEN rows
  ELSE DiasUteisRows(Tail(rows))

\* lines 23-30: int(float(cell)) of the labelled row, None when there is no
\* such row or the cell does not convert
dias_uteis(sh) ==
  LET found == DiasUteisRows(sh.rows)
  IN  IF found # <<>> /\ Head(found)[1].k = "num" THEN Head(found)[1] ELSE None

\* row.iloc[0] or row.iloc[1] past the sheet's width: IndexError
ViagemRaises(sh) ==
  \/ Len(sh.rows) > 0 /\ sh.ncols < 1
  \/ DiasUteisRows(sh.rows) # <<>> /\ sh.ncols < 2

\* line 31: dias_uteis or 24
BvContext(sh) ==
  LET d == dias_uteis(sh)
  IN  DataFrame(<< [dias_uteis |-> IF isna(d) \/ d.n = 0 THEN Num(DefaultDiasUteis) ELSE d] >>)

cost_sheets ==
  << "PATRIMÔNIO + CAPITAL", "TAXAS E IMPOSTOS", "LICENÇAS E CERTIFICAÇÕES",
     "GERENCIAMENTO DE RISCO", "SEGURO - FROTA", "MANUTENÇÃO+PNEUS",
     "MÃO DE OBRA + %", "COMBUSTÍVEL" >>

sheet_prefix(sheet) ==
  CASE sheet = "PATRIMÔNIO + CAPITAL" -> "patrimonio_"
    [] sheet = "TAXAS E IMPOSTOS" -> "taxas_"
    [] sheet = "LICENÇAS E CERTIFICAÇÕES" -> "licencas_"
    [] sheet = "GERENCIAMENTO DE RISCO" -> "risco_"
    [] sheet = "SEGURO - FROTA" -> "seguro_"
    [] sheet = "MANUTENÇÃO+PNEUS" -> "manutencao_"
    [] sheet = "MÃO DE OBRA + %" -> "mao_obra_"
    [] sheet = "COMBUSTÍVEL" -> "combustivel_"
    [] OTHER -> ""

\* lines 63-68: the columns of a cost sheet whose header is a canonical vehicle
CostVehicleCols(sh) ==
  SelectSeq([j \in 1..(sh.ncols - 1) |-> j],
            LAMBDA c : /\ notna(sh.rows[1][c]) /\ sh.rows[1][c].k = "str"
                       /\ strip(sh.rows[1][c].s) \in Canonical)

\* line 80
CostNum(val) ==
  IF notna(val) /\ strip(str(val)) # "" /\ val.k = "num" THEN val ELSE None

\* lines 72-86 for one row of a cost sheet
CostRowMetrics(sh, row) ==
  LET metric_label == row[0]
      metric_name == sheet_prefix(sh.name) \o _slug(str(metric_label))
      cs == SelectSeq(CostVehicleCols(sh), LAMBDA c : CostNum(row[c]) # None)
  IN  IF isna(metric_label) \/ strip(str(metric_label)) = "" THEN <<>>
      ELSE [j \in 1..Len(cs) |->
             [vehicle_type |-> strip(sh.rows[1][cs[j]].s), metric |-> metric_name,
              value |-> CostNum(row[cs[j]])]]

\* lines 56-86 for one sheet
CostSheetMetrics(wb, name) ==
  IF ~HasSheet(wb, name) THEN <<>>
  ELSE LET sh == Sheet(wb, name)
       IN  IF Len(sh.rows) = 0 \/ sh.ncols < 2 \/ CostVehicleCols(sh) = <<>> THEN <<>>
           ELSE Flatten(Map(Tail(sh.rows), LAMBDA row : CostRowMetrics(sh, row)))

\* lines 54-86: vehicle_metrics
VehicleMetrics(wb) ==
  Flatten([i \in 1..Len(cost_sheets) |-> CostSheetMetrics(wb, cost_sheets[i])])

\* lines 89-95: one row per vehicle that has a metric, in the order of the
\* sorted index, one column per metric holding the vehicle's first value;
\* without any metric, one row per canonical vehicle
VehiclePivot(vehicle_metrics) ==
  IF vehicle_metrics # <<>>
  THEN LET vs == SelectSeq(CANONICAL_VEHICLES,
                   LAMBDA v : \E i \in 1..Len(vehicle_metrics) :
                                vehicle_metrics[i].vehicle_type = v)
           ms == {vehicle_metrics[i].metric : i \in 1..Len(vehicle_metrics)}
           of(v, m) == SelectSeq(vehicle_metrics,
                         LAMBDA x : x.vehicle_type = v /\ x.metric = m)
       IN  [cols |-> {"vehicle_type"} \cup ms,
            rows |-> [i \in 1..Len(vs) |->
                       [c \in {"vehicle_type"} \cup ms |->
                         IF c = "vehicle_type" THEN Str(vs[i])
                         ELSE IF of(vs[i], c) # <<>> THEN Head(of(vs[i], c)).value
                         ELSE NaN]]]
  ELSE DataFrame([i \in 1..Len(CANONICAL_VEHICLES) |->
                   [vehicle_type |-> Str(CANONICAL_VEHICLES[i])]])

\* the index of the column named name
ColumnOf(names, name) == CHOOSE i \in DOMAIN names : names[i] = name

\* line 99: the header row names both bound columns
RelNamed(sh) ==
  /\ Len(sh.rows) > 0
  /\ \E i \in 0..(sh.ncols - 1) : ColumnNames(sh)[i] = "KM INICIAL"
  /\ \E i \in 0..(sh.ncols - 1) : ColumnNames(sh)[i] = "KM FINAL"

\* line 104, read with header = 0: the columns named by a canonical vehicle
RelNamedVehicleCols(sh) ==
  SelectSeq([j \in 1..sh.ncols |-> j - 1], LAMBDA c : ColumnNames(sh)[c] \in Canonical)

RelByName(sh) == RelNamed(sh) /\ RelNamedVehicleCols(sh) # <<>>

\* lines 110-117: the columns 2.. whose row-0 cell is a canonical vehicle
RelRow0VehicleCols(sh) ==
  SelectSeq([j \in 1..(sh.ncols - 2) |-> j + 1],
            LAMBDA c : notna(sh.rows[1][c]) /\ strip(str(sh.rows[1][c])) \in Canonical)

\* lines 132-134: float(val) if pd.notna(val) else None
Pct(val) == IF val.k = "num" THEN val ELSE None

\* line 128
km_total_primary(km_i, km_f) == IF Geq(km_f, km_i) THEN Add1(Sub(km_f, km_i)) ELSE Num(0)

\* line 169
km_total_fallback(km_i, km_f) == Add1(Sub(km_f, km_i))

RelDict(v, km_i, km_f, km_total, pct) ==
  [ vehicle_type |-> Str(v), km_inicial |-> km_i, km_final |-> km_f,
    km_total |-> km_total, pct_frete_ida |-> pct ]

\* lines 119-144 on the frame read by name: the bounds are the named columns
RelRowsByName(sh) ==
  LET names == ColumnNames(sh)
      ci == ColumnOf(names, "KM INICIAL")
      cf == ColumnOf(names, "KM FINAL")
      kept == SelectSeq(Tail(sh.rows),
                LAMBDA row : /\ FloatOk(row[ci]) /\ FloatOk(row[cf])
                             /\ ~(isna(Float(row[ci])) \/ isna(Float(row[cf]))))
      ofRow(row) ==
        LET cs == SelectSeq(RelNamedVehicleCols(sh), LAMBDA c : Pct(row[c]) # None)
        IN  [j \in 1..Len(cs) |->
              RelDict(names[cs[j]], Float(row[ci]), Float(row[cf]),
                      km_total_primary(Float(row[ci]), Float(row[cf])), Pct(row[cs[j]]))]
  IN  Flatten(Map(kept, ofRow))

\* lines 106-144 on the frame read by position: the bounds are columns 0 and
\* 1 coerced to numbers, the vehicles are named by row 0; row.get(v) of a
\* vehicle that names two columns is a Series, whose truth value raises the
\* ValueError the code catches, and the percentage is None
RelRowsByPosition(sh) ==
  LET cols == RelRow0VehicleCols(sh)
      nameOf(c) == strip(str(sh.rows[1][c]))
      twice(c) == \E j \in 1..Len(cols) : cols[j] # c /\ nameOf(cols[j]) = nameOf(c)
      kept == SelectSeq(Tail(sh.rows),
                LAMBDA row : row[0].k = "num" /\ row[1].k = "num")
      ofRow(row) ==
        LET cs == SelectSeq(cols, LAMBDA c : ~twice(c) /\ Pct(row[c]) # None)
        IN  [j \in 1..Len(cs) |->
              RelDict(nameOf(cs[j]), row[0], row[1],
                      km_total_primary(row[0], row[1]), Pct(row[cs[j]]))]
  IN  Flatten(Map(kept, ofRow))

\* lines 98-144: rows_rel before the fallback
RelPrimaryRows(sh) ==
  IF RelByName(sh) THEN RelRowsByName(sh)
  ELSE IF sh.ncols >= 2 THEN RelRowsByPosition(sh)
  ELSE <<>>

\* lines 148-172: rows 1.. by position, the bounds not checked for NaN or
\* for their order; the vehicle columns are 2 .. 2 + len(CANONICAL_VEHICLES) - 1
RelFallbackRows(sh) ==
  LET last == IF sh.ncols < 2 + Len(CANONICAL_VEHICLES)
              THEN sh.ncols - 1 ELSE 2 + Len(CANONICAL_VEHICLES) - 1
      cols == SelectSeq(RelRow0VehicleCols(sh), LAMBDA c : c <= last)
      kept == SelectSeq(Tail(sh.rows), LAMBDA row : FloatOk(row[0]) /\ FloatOk(row[1]))
      ofRow(row) ==
        LET cs == SelectSeq(cols, LAMBDA c : Pct(row[c]) # None)
        IN  [j \in 1..Len(cs) |->
              RelDict(strip(str(sh.rows[1][cs[j]])), Float(row[0]), Float(row[1]),
                      km_total_fallback(Float(row[0]), Float(row[1])), Pct(row[cs[j]]))]
  IN  IF Len(sh.rows) = 0 THEN <<>> ELSE Flatten(Map(kept, ofRow))

\* line 146: the fallback is taken when the primary layout yielded no row
BvFallback(sh) == RelPrimaryRows(sh) = <<>>

\* lines 119-173: rows_rel
RelRows(sh) == IF BvFallback(sh) THEN RelFallbackRows(sh) ELSE RelPrimaryRows(sh)

\* a frame of one column has no KM FINAL: row["KM FINAL"] raises KeyError
RelRaises(sh) == sh.ncols = 1 /\ Len(sh.rows) > 0

\* lines 176-184
BvMain(rows_rel, vehicle_pivot) ==
  SetCol(IF rows_rel # <<>>
         THEN merge_left(DataFrame(rows_rel), vehicle_pivot, {"vehicle_type"})
         ELSE SetCol(SetCol(SetCol(vehicle_pivot, "km_inicial", Num(0)),
                            "km_final", Num(0)), "km_total", Num(0)),
         "source", Str("BASE_VALORES"))

BvRaises(wb) ==
  \/ ~HasSheet(wb, VIAGEM)
  \/ ViagemRaises(Sheet(wb, VIAGEM))
  \/ ~HasSheet(wb, REL)
  \/ RelRaises(Sheet(wb, REL))

\* read_base_valores(path): [raised, main, context]
read_base_valores(wb) ==
  IF BvRaises(wb)
  THEN [raised |-> TRUE, main |-> EmptyFrame, context |-> EmptyFrame]
  ELSE [raised |-> FALSE,
        main |-> BvMain(RelRows(Sheet(wb, REL)), VehiclePivot(VehicleMetrics(wb))),
        context |-> BvContext(Sheet(wb, VIAGEM))]

(***************************************************************************)
(* merge_all.                                                              *)
(***************************************************************************)
\* main_dfs with every present source appended, empty table or not
MainDfs_all(fs, bv, cf, cot) ==
  (IF fs.bv.exists THEN << SetCol(bv.main, "_source_bv", True) >> ELSE <<>>)
  \o (IF fs.cf.exists THEN << SetCol(cf.main, "_source_cf", True) >> ELSE <<>>)
  \o (IF fs.cot.exists THEN << SetCol(cot.main, "_source_cot", True) >> ELSE <<>>)

\* main_dfs with the markers of the two later sources exchanged
MainDfs_swapped(fs, bv, cf, cot) ==
  (IF fs.bv.exists THEN << SetCol(bv.main, "_source_bv", True) >> ELSE <<>>)
  \o (IF fs.cf.exists /\ ~empty(cf.main)
      THEN << SetCol(cf.main, "_source_cot", True) >> ELSE <<>>)
  \o (IF fs.cot.exists /\ ~empty(cot.main)
      THEN << SetCol(cot.main, "_source_cf", True) >> ELSE <<>>)

\* lines 31-48: main_dfs, given the extractors' results
MainDfs(fs, bv, cf, cot) ==
  (IF fs.bv.exists THEN << SetCol(bv.main, "_source_bv", True) >> ELSE <<>>)
  \o (IF fs.cf.exists /\ ~empty(cf.main)
      THEN << SetCol(cf.main, "_source_cf", True) >> ELSE <<>>)
  \o (IF fs.cot.exists /\ ~empty(cot.main)
      THEN << SetCol(cot.main, "_source_cot", True) >> ELSE <<>>)

\* context_dfs holding the context of the first present source only
ContextDfs_first(fs, bv, cot) ==
  IF fs.bv.exists THEN << bv.context >>
  ELSE IF fs.cot.exists THEN << cot.context >> ELSE <<>>

\* lines 35 and 48: context_dfs
ContextDfs(fs, bv, cot) ==
  (IF fs.bv.exists THEN << bv.context >> ELSE <<>>)
  \o (IF fs.cot.exists THEN << cot.context >> ELSE <<>>)

\* the dtype of a column: object when it holds None only, else numeric
ObjectColumn(df, c) == \A i \in 1..Len(df.rows) : df.rows[i][c].k = "none"

\* merge refuses to join a numeric key column with an object one
\* (ValueError: You are trying to merge on float64 and object columns)
MergeKeyRaises(left, right) ==
  /\ left.rows # <<>> /\ right.rows # <<>>
  /\ \E c \in {"km_inicial", "km_final"} : ObjectColumn(left, c) # ObjectColumn(right, c)

\* lines 63-71: one join, the later frame's duplicate columns dropped
JoinStep(main, df) ==
  LET m == merge_outer(main, df, KeyCols)
  IN  drop(m, {c \in m.cols : endswith(c, "_dup")})

\* lines 61-71
RECURSIVE JoinAll(_, _)
JoinAll(main, dfs) ==
  IF dfs = <<>> THEN main ELSE JoinAll(JoinStep(main, Head(dfs)), Tail(dfs))

RECURSIVE JoinRaises(_, _)
JoinRaises(main, dfs) ==
  /\ dfs # <<>>
  /\ \/ MergeKeyRaises(main, Head(dfs))
     \/ JoinRaises(JoinStep(main, Head(dfs)), Tail(dfs))

\* the backfill without the + 1
km_total_backfill_exclusive(km_i, km_f) == Sub(km_f, km_i)

\* line 77
km_total_backfill(km_i, km_f) == Add1(Sub(km_f, km_i))

\* no backfill of km_total
FillKmTotal_none(df) == df

\* lines 74-78
FillKmTotal(df) ==
  IF "km_total" \in df.cols
  THEN [df EXCEPT !.rows =
         [i \in 1..Len(df.rows) |->
           LET r == df.rows[i]
           IN  IF isna(r["km_total"]) /\ notna(r["km_inicial"]) /\ notna(r["km_final"])
               THEN [r EXCEPT !["km_total"] = km_total_backfill(r["km_inicial"], r["km_final"])]
               ELSE r]]
  ELSE df

\* lines 81-84: keep = "first"
RECURSIVE KeepFirst(_, _)
KeepFirst(rows, seen) ==
  IF rows = <<>> THEN <<>>
  ELSE IF Key(Head(rows)) \in seen THEN KeepFirst(Tail(rows), seen)
  ELSE << Head(rows) >> \o KeepFirst(Tail(rows), seen \cup {Key(Head(rows))})

\* keep = "last"
drop_duplicates_last(df) ==
  [df EXCEPT !.rows = Reverse(KeepFirst(Reverse(df.rows), {}))]

drop_duplicates(df) == [df EXCEPT !.rows = KeepFirst(df.rows, {})]

\* line 88: pd.concat(axis = 1) of frames of one row each
ConcatColumns(dfs) ==
  LET cols == UNION {dfs[i].cols : i \in 1..Len(dfs)}
      src(c) == CHOOSE i \in 1..Len(dfs) : c \in dfs[i].cols
  IN  [cols |-> cols, rows |-> << [c \in cols |-> dfs[src(c)].rows[1][c]] >>]

\* a name two context frames share names two columns of the concatenation;
\* context_flat[c] is then a frame and the test of line 92 raises ValueError
ContextRaises(dfs) ==
  \E i, j \in 1..Len(dfs) : i # j /\ dfs[i].cols \cap dfs[j].cols # {}

\* lines 87-97: row 0, each missing field filled with the column's first
\* value that is not missing
ContextFlat(dfs) ==
  IF dfs # <<>>
  THEN LET context == ConcatColumns(dfs)
           first(c) == SelectSeq(context.rows, LAMBDA r : notna(r[c]))
       IN  [cols |-> context.cols,
            rows |-> << [c \in context.cols |->
                          IF isna(context.rows[1][c]) /\ first(c) # <<>>
                          THEN Head(first(c))[c] ELSE context.rows[1][c]] >>]
  ELSE EmptyFrame

Raised == [raised |-> TRUE, main |-> EmptyFrame, context |-> EmptyFrame]

\* the frame before the deduplication of lines 81-84
Joined(main_dfs) == FillKmTotal(JoinAll(Head(main_dfs), Tail(main_dfs)))

\* lines 31-48: what each extractor returns for a file that exists
BvOf(fs) == IF fs.bv.exists THEN read_base_valores(fs.bv) ELSE Raised
CfOf(fs) == IF fs.cf.exists THEN read_calculo_frete(fs.cf) ELSE Raised
CotOf(fs) == IF fs.cot.exists THEN read_cotacao(fs.cot) ELSE Raised

ExtractorRaised(fs) ==
  \/ fs.bv.exists /\ BvOf(fs).raised
  \/ fs.cf.exists /\ CfOf(fs).raised
  \/ fs.cot.exists /\ CotOf(fs).raised

\* merge_all(base_valores_path, calculo_path, cotacao_path):
\* [raised, main, context]
merge_all(fs) ==
  LET main_dfs == MainDfs(fs, BvOf(fs), CfOf(fs), CotOf(fs))
      context_dfs == ContextDfs(fs, BvOf(fs), CotOf(fs))
  IN  IF ExtractorRaised(fs)
      THEN Raised
      ELSE IF main_dfs = <<>>
      THEN [raised |-> FALSE, main |-> EmptyFrame, context |-> EmptyFrame]
      ELSE IF JoinRaises(Head(main_dfs), Tail(main_dfs)) \/ ContextRaises(context_dfs)
      THEN Raised
      ELSE [raised |-> FALSE,
            main |-> drop_duplicates(Joined(main_dfs)),
            context |-> ContextFlat(context_dfs)]

(***************************************************************************)
(* The workbooks the model reads.                                          *)
(***************************************************************************)
NoFile == [exists |-> FALSE, sheets |-> <<>>]
File(sheets) == [exists |-> TRUE, sheets |-> sheets]

\* a grid row of ncols cells: the given cells, blank elsewhere
GridRow(ncols, cells) ==
  [c \in 0..(ncols - 1) |-> IF c \in DOMAIN cells THEN cells[c] ELSE NaN]

Grid(name, ncols, rows) == [name |-> name, ncols |-> ncols, rows |-> rows]

Txt == Str("n/d")
KmNums == {Num(n) : n \in 0..MaxKm}

\* --- computed-freight workbooks ---
CfWidth == 21

\* a data row of a per-vehicle sheet: the km cells and one value for the
\* rate cells
CfDataRow(ki, kf, kt, val) ==
  GridRow(CfWidth,
          (idx_km_inicial :> ki) @@ (idx_km_final :> kf) @@ (idx_km_total :> kt)
          @@ (idx_mensal :> val) @@ (idx_por_km :> val) @@ (idx_diario :> val)
          @@ (idx_frete_entrega :> val) @@ (idx_frete_retorno :> val)
          @@ (idx_frete_viagem :> val))

CfDataRows ==
  {CfDataRow(ki, kf, kt, Num(7)) :
     ki \in KmNums \cup {NaN}, kf \in KmNums \cup {NaN}, kt \in {NaN, Txt, Num(1)}}

CfLabelRow == GridRow(CfWidth, (idx_km_inicial :> Str("KM INICIAL")))

CfSheet(name, data) == Grid(name, CfWidth, << CfLabelRow >> \o data)

\* the consolidated sheet: rows 0-3 the header region with the vehicle name
\* of each triplet in row 2, rows 4.. the data
GeralSheet(names, data) ==
  LET ncols == 4 + 3 * Len(names)
  IN  Grid(GERAL, ncols,
           << GridRow(ncols, <<>>), GridRow(ncols, <<>>),
              [c \in 0..(ncols - 1) |->
                 IF c >= 4 /\ (c - 4) % 3 = 1 THEN names[((c - 4) \div 3) + 1] ELSE NaN],
              GridRow(ncols, <<>>) >>
           \o [i \in 1..Len(data) |->
                 [c \in 0..(ncols - 1) |->
                    IF c = 0 THEN NaN ELSE IF c <= 3 THEN data[i][c] ELSE Num(7)]])

GeralNames ==
  {<<>>, << Str("VAN_CS") >>, << Str("BITREM") >>, << NaN, Str(" VAN - CARGA SECA ") >>,
   << Str("VAN - CARGA SECA"), Str("van - carga seca") >>}

GeralData ==
  SeqsUpTo({<<ki, kf, kt>> : ki \in {Num(0), Num(MaxKm)},
                             kf \in {Num(0), NaN}, kt \in {NaN, Txt, Num(1)}}, MaxRows)

CfOneRow(ki, kf, kt) == << CfDataRow(ki, kf, kt, Num(7)) >>

CfBooks ==
  {File(<< CfSheet("FIORINO_CS", d) >> \o more) :
     d \in SeqsUpTo(CfDataRows, MaxRows),
     more \in {<<>>, << CfSheet("FIORINO_CS_AG", << CfDataRow(Num(0), Num(0), NaN, NaN) >>) >>,
               << GeralSheet(<< Str("VAN_CS") >>, << <<Num(0), Num(0), Num(1)>> >>) >>}}
  \cup {File(<< Grid("RESUMO", 1, << GridRow(1, <<>>) >>) >> \o g) :
          g \in {<<>>} \cup {<< GeralSheet(n, d) >> : n \in GeralNames, d \in GeralData}}

\* --- quotation workbooks ---
CotWidth == 4

CotRow(label, c1, c2, c3) == GridRow(CotWidth, (0 :> label) @@ (1 :> c1) @@ (2 :> c2) @@ (3 :> c3))

CotacaoSheets ==
  {Grid(COTACAO, CotWidth, rows) :
     rows \in {<< >>,
               << CotRow(Str("Cliente:"), Str("ACME"), NaN, NaN) >>,
               << CotRow(Str("Cliente:"), NaN, NaN, NaN),
                  CotRow(Str("Origem:"), Str("SP"), NaN, NaN),
                  CotRow(Str("Origem:"), Str("RJ"), NaN, NaN) >>,
               << CotRow(Str("Nº"), NaN, Num(15), NaN),
                  CotRow(NaN, Str("x"), NaN, NaN),
                  CotRow(Str("Total Km"), Num(300), NaN, NaN),
                  CotRow(Str("Revisão:"), NaN, NaN, Num(2)) >>,
               << CotRow(Str("Nº"), NaN, NaN, NaN),
                  CotRow(Str("Data:"), Str("2024-01-01"), NaN, NaN),
                  CotRow(Str("Destino:"), Str("MG"), NaN, NaN) >>}}

DefaultCotacao ==
  Grid(COTACAO, CotWidth, << CotRow(Str("Cliente:"), Str("ACME"), NaN, NaN),
                            CotRow(Str("Origem:"), Str("SP"), NaN, NaN) >>)

BaseWidth == 5

BaseHeader ==
  GridRow(BaseWidth, (0 :> Str("Tipos de Veículo")) @@ (1 :> Str("PESO MÁXIMO"))
                     @@ (2 :> Str("DIÁRIA")) @@ (3 :> Str("VALOR / HORA"))
                     @@ (4 :> Str("EIXOS")))

BaseRow(name, val) ==
  GridRow(BaseWidth, (0 :> name) @@ (1 :> val) @@ (2 :> val) @@ (3 :> val) @@ (4 :> val))

BaseNames ==
  {Str("VAN - CARGA SECA"), Str("VAN_CS"), Str("BITREM"), Str("MERCADORIAS"), NaN}

BaseSheets ==
  {Grid(BASE, BaseWidth, << BaseHeader >> \o rows) :
     rows \in SeqsUpTo({BaseRow(nm, v) : nm \in BaseNames, v \in {Num(9)}}, MaxRows)}
  \cup {Grid(BASE, BaseWidth, << BaseHeader, BaseRow(Str("VAN_CS"), Num(9)),
                                 BaseRow(Str("VAN - CARGA SECA"), Txt) >>)}

\* the band matrix: row 0 a title, row 1 the header with the vehicle labels
\* from column 4, rows 2.. the data
FpSheet(labels, data) ==
  LET ncols == 4 + Len(labels)
  IN  Grid(FRETE_PESO, ncols,
           << GridRow(ncols, <<>>),
              [c \in 0..(ncols - 1) |-> IF c >= 4 THEN labels[c - 3] ELSE NaN] >>
           \o [i \in 1..Len(data) |->
                 [c \in 0..(ncols - 1) |->
                    IF c = 0 THEN NaN ELSE IF c <= 3 THEN data[i][c] ELSE Num(8)]])

FpLabels ==
  {<< Str("VAN - CARGA SECA"), Str("FIORINO_CS") >>,
   << Str("VAN_CS"), Str(" VAN - CARGA SECA ") >>,
   << Str("BITREM"), NaN >>}

FpData ==
  SeqsUpTo({<<ki, kf, kt>> : ki \in {Num(0), NaN},
                             kf \in {Num(0), Num(MaxKm)}, kt \in {NaN, Num(1)}}, MaxRows)

FpSheets ==
  {FpSheet(l, d) : l \in FpLabels, d \in FpData}
  \cup {Grid(FRETE_PESO, 1, << GridRow(1, <<>>) >>)}

CotBooks ==
  {File(<< c, b, f >>) : c \in {DefaultCotacao}, b \in BaseSheets, f \in FpSheets}
  \cup {File(<< c, Grid(BASE, BaseWidth, << BaseHeader, BaseRow(Str("VAN_CS"), Num(9)) >>),
                FpSheet(<< Str("VAN_CS") >>, << <<Num(0), Num(1), Num(2)>> >>) >>) :
          c \in CotacaoSheets}
  \cup {File(<< DefaultCotacao,
                Grid(BASE, BaseWidth, << BaseHeader, BaseRow(Str("VAN_CS"), Num(9)) >>) >>),
        File(<< DefaultCotacao, FpSheet(<< Str("VAN_CS") >>, <<>>) >>),
        File(<< Grid(BASE, BaseWidth, << BaseHeader >>), FpSheet(<< Str("VAN_CS") >>, <<>>) >>)}

\* --- fixed-cost workbooks ---
ViagemSheet(rows) ==
  Grid(VIAGEM, 2, [i \in 1..Len(rows) |-> GridRow(2, (0 :> rows[i][1]) @@ (1 :> rows[i][2]))])

ViagemSheets ==
  {ViagemSheet(rows) :
     rows \in {<<>>,
               << <<Str("DIAS ÚTEIS:"), Num(22)>> >>,
               << <<Str("VIAGEM"), Num(3)>>, <<NaN, NaN>>, <<Str("DIAS ÚTEIS:"), Num(21)>>,
                  <<Str("DIAS ÚTEIS:"), Num(20)>> >>,
               << <<Str("DIAS ÚTEIS:"), NaN>> >>,
               << <<Str("DIAS ÚTEIS:"), Txt>> >>,
               << <<Str("DIAS ÚTEIS:"), Num(0)>> >>}}

DefaultViagem == ViagemSheet(<< <<Str("DIAS ÚTEIS:"), Num(22)>> >>)

\* a cost sheet: row 0 the vehicle labels from column 1, then one row per
\* metric
CostSheet(name, labels, metrics) ==
  LET ncols == 1 + Len(labels)
  IN  Grid(name, ncols,
           << [c \in 0..(ncols - 1) |-> IF c = 0 THEN Str("CUSTO") ELSE labels[c]] >>
           \o [i \in 1..Len(metrics) |->
                 [c \in 0..(ncols - 1) |-> IF c = 0 THEN metrics[i][1] ELSE metrics[i][2][c]]])

CostSheetSets ==
  {<<>>,
   << CostSheet("SEGURO - FROTA", << Str("VAN - CARGA SECA") >>,
                << <<Str("Seguro"), << Num(100) >> >> >>) >>,
   << CostSheet("COMBUSTÍVEL", << Str(" VAN - CARGA SECA "), Str("BITREM"), Str("FIORINO - CARGA SECA") >>,
                << <<Str("Diesel (R$/L)"), << Num(6), Num(6), NaN >> >>,
                   <<NaN, << Num(1), Num(1), Num(1) >> >>,
                   <<Str("Consumo - Km/L"), << Txt, Num(4), Num(3) >> >> >>),
      CostSheet("SEGURO - FROTA", << Str("VAN - CARGA SECA") >>,
                << <<Str("Seguro"), << Num(100) >> >>, <<Str("Seguro"), << Num(200) >> >> >>) >>}

DefaultCost ==
  << CostSheet("SEGURO - FROTA", << Str("VAN - CARGA SECA") >>,
               << <<Str("Seguro"), << Num(100) >> >> >>) >>

\* the percentage sheet: a header row of four cells, then the data rows
RelSheet(header, data) ==
  Grid(REL, 4, << [c \in 0..3 |-> header[c + 1]] >>
               \o [i \in 1..Len(data) |-> [c \in 0..3 |-> data[i][c + 1]]])

RelHeaders ==
  {<< Str("KM INICIAL"), Str("KM FINAL"), Str("VAN - CARGA SECA"), Str("FIORINO - CARGA SECA") >>,
   << Str("KM INICIAL"), Str("KM FINAL"), Str(" VAN - CARGA SECA "), Str("BITREM") >>,
   << Str("KM FINAL"), Str("KM INICIAL"), Str("VAN - CARGA SECA"), Str("VAN - CARGA SECA") >>,
   << Str("DE"), Str("ATÉ"), Str("VAN - CARGA SECA"), Str("FIORINO - CARGA SECA") >>,
   << Str("DE"), Str("ATÉ"), Str("VAN - CARGA SECA"), Str("VAN - CARGA SECA") >>,
   << Num(0), Num(1), Str("VAN - CARGA SECA"), NaN >>}

RelDataRows ==
  {<<ki, kf, p[1], p[2]>> :
     ki \in KmNums \cup {NaN}, kf \in {Num(0), Num(MaxKm), Txt},
     p \in {<<Num(5), Num(5)>>, <<NaN, Num(5)>>, <<NaN, Txt>>}}

RelSheets == {RelSheet(h, d) : h \in RelHeaders, d \in SeqsUpTo(RelDataRows, MaxRows)}

DefaultRel ==
  RelSheet(<< Str("KM INICIAL"), Str("KM FINAL"), Str("VAN - CARGA SECA"),
              Str("FIORINO - CARGA SECA") >>,
           << <<Num(0), Num(1), Num(5), Num(5)>> >>)

BvBooks ==
  {File(<< DefaultViagem >> \o DefaultCost \o << r >>) : r \in RelSheets}
  \cup {File(<< v >> \o DefaultCost \o << DefaultRel >>) : v \in ViagemSheets}
  \cup {File(<< DefaultViagem >> \o c \o << r >>) :
          c \in CostSheetSets, r \in {DefaultRel, RelSheet(<< Str("DE"), Str("ATÉ"), NaN, NaN >>, <<>>)}}
  \cup {File(<< DefaultViagem >> \o DefaultCost), File(DefaultCost \o << DefaultRel >>)}

\* --- the files of one run ---
Files(bv, cf, cot) == [bv |-> bv, cf |-> cf, cot |-> cot]

\* one band per source, for the runs that join several sources
BvBand(ki, kf) ==
  File(<< DefaultViagem >> \o DefaultCost
       \o << RelSheet(<< Str("KM INICIAL"), Str("KM FINAL"), Str("VAN - CARGA SECA"),
                         Str("FIORINO - CARGA SECA") >>,
                      << <<ki, kf, Num(5), Num(5)>> >>) >>)

CfBand(ki, kf, kt) ==
  File(<< CfSheet("FIORINO_CS", CfOneRow(ki, kf, kt)),
          CfSheet("FIORINO_CS_AG", CfOneRow(Num(0), Num(0), Num(5))),
          CfSheet("TRUCK_CS", CfOneRow(ki, kf, kt)) >>)

CotBand(ki, kf, kt) ==
  File(<< DefaultCotacao,
          Grid(BASE, BaseWidth, << BaseHeader, BaseRow(Str("VAN_CS"), Num(9)) >>),
          FpSheet(<< Str("VAN_CS"), Str("TRUCK_CS"), Str(" VAN - CARGA SECA ") >>,
                  << <<ki, kf, kt>> >>) >>)

CotBaseOnly ==
  File(<< DefaultCotacao,
          Grid(BASE, BaseWidth, << BaseHeader, BaseRow(Str("VAN_CS"), Num(9)) >>),
          Grid(FRETE_PESO, 1, << GridRow(1, <<>>) >>) >>)

CotNoRows ==
  File(<< DefaultCotacao, Grid(BASE, BaseWidth, << BaseHeader >>),
          Grid(FRETE_PESO, 1, << GridRow(1, <<>>) >>) >>)

CfNoRows == File(<< GeralSheet(<< Str("BITREM") >>, << <<Num(0), Num(1), Num(2)>> >>) >>)

JoinedFiles ==
  {Files(bv, cf, cot) :
     bv \in {NoFile} \cup {BvBand(Num(0), kf) : kf \in {Num(0), Num(MaxKm)}},
     cf \in {NoFile, CfNoRows}
            \cup {CfBand(Num(0), kf, kt) : kf \in {Num(0), Num(MaxKm)}, kt \in {NaN, Num(3)}},
     cot \in {NoFile, CotBaseOnly, CotNoRows}
             \cup {CotBand(Num(0), kf, kt) : kf \in {Num(0), Num(MaxKm)}, kt \in {NaN, Num(4)}}}

InputFiles ==
  {Files(NoFile, cf, NoFile) : cf \in CfBooks}
  \cup {Files(NoFile, NoFile, cot) : cot \in CotBooks}
  \cup {Files(bv, NoFile, NoFile) : bv \in BvBooks}
  \cup JoinedFiles

(***************************************************************************)
(* The state machine: one call of an extractor or of merge_all on the      *)
(* files.                                                                  *)
(***************************************************************************)
Init ==
  /\ files \in InputFiles
  /\ pc = "idle"
  /\ ret = [raised |-> FALSE, main |-> EmptyFrame, context |-> EmptyFrame]
  /\ arg = ""

CallReadBaseValores ==
  /\ pc = "idle"
  /\ files.bv.exists
  /\ pc' = "read_base_valores"
  /\ ret' = read_base_valores(files.bv)
  /\ UNCHANGED <<files, arg>>

CallReadCalculoFrete ==
  /\ pc = "idle"
  /\ files.cf.exists
  /\ pc' = "read_calculo_frete"
  /\ ret' = [raised |-> read_calculo_frete(files.cf).raised,
             main |-> read_calculo_frete(files.cf).main,
             context |-> EmptyFrame]
  /\ UNCHANGED <<files, arg>>

CallReadCotacao ==
  /\ pc = "idle"
  /\ files.cot.exists
  /\ pc' = "read_cotacao"
  /\ ret' = read_cotacao(files.cot)
  /\ UNCHANGED <<files, arg>>

CallMergeAll ==
  /\ pc = "idle"
  /\ pc' = "merge_all"
  /\ ret' = merge_all(files)
  /\ UNCHANGED <<files, arg>>

Next ==
  \/ CallReadBaseValores
  \/ CallReadCalculoFrete
  \/ CallReadCotacao
  \/ CallMergeAll

Spec == Init /\ [][Next]_vars

(***************************************************************************)
(* _slug on its own: the labels are a short or a long prefix followed by   *)
(* up to MaxLabel characters of the kinds the rule names.                  *)
(***************************************************************************)
LabelChars == {"A", "b", " ", "%", "/", "-", "(", ")", ":", "."}

Labels ==
  {prefix \o Join(cs) :
     prefix \in {"", "custo fixo mensal do veiculo com motorista e ajud"},
     cs \in SeqsUpTo(LabelChars, MaxLabel)}

SlugInit ==
  /\ files = Files(NoFile, NoFile, NoFile)
  /\ pc = "idle"
  /\ ret = [raised |-> FALSE, main |-> EmptyFrame, context |-> EmptyFrame]
  /\ arg = ""

Call_slug ==
  /\ pc = "idle"
  /\ \E s \in Labels :
       /\ arg' = s
       /\ ret' = [raised |-> FALSE, value |-> _slug(s)]
  /\ pc' = "_slug"
  /\ UNCHANGED files

SlugNext == Call_slug

SlugSpec == SlugInit /\ [][SlugNext]_vars

(***************************************************************************)
(* Properties of merge_all.                                                *)
(***************************************************************************)
MergeReturned == pc = "merge_all" /\ ~ret.raised

Markers == {"_source_bv", "_source_cf", "_source_cot"}

KeysOf(df) == {Key(df.rows[i]) : i \in 1..Len(df.rows)}

\* the index of the first row of rows that has the key k
FirstWith(rows, k) ==
  CHOOSE j \in 1..Len(rows) :
    Key(rows[j]) = k /\ \A h \in 1..(j - 1) : Key(rows[h]) # k

\* the joined and backfilled table of the contributing sources
Candidates(fs) == Joined(MainDfs(fs, BvOf(fs), CfOf(fs), CotOf(fs))).rows

SomeContributed(fs) == MainDfs(fs, BvOf(fs), CfOf(fs), CotOf(fs)) # <<>>

\* C1: in the table merge_all returns no two rows share the key
\* (vehicle_type, km_inicial, km_final), and when the joined table held
\* several rows of one key the row kept is the first of them in join order.
C1_UniqueKeysFirstKept ==
  MergeReturned =>
    /\ \A i, j \in 1..Len(ret.main.rows) :
         Key(ret.main.rows[i]) = Key(ret.main.rows[j]) => i = j
    /\ SomeContributed(files) =>
         /\ KeysOf(ret.main) = {Key(Candidates(files)[j]) : j \in 1..Len(Candidates(files))}
         /\ \A i \in 1..Len(ret.main.rows) :
              ret.main.rows[i] =
                Candidates(files)[FirstWith(Candidates(files), Key(ret.main.rows[i]))]

\* the joined table held two rows of one key that differ, and one was dropped
C1_Witness ==
  /\ MergeReturned
  /\ SomeContributed(files)
  /\ \E i, j \in 1..Len(Candidates(files)) :
       /\ i < j
       /\ Key(Candidates(files)[i]) = Key(Candidates(files)[j])
       /\ Candidates(files)[i] # Candidates(files)[j]
  /\ Len(ret.main.rows) < Len(Candidates(files))

SingleSource == Cardinality({x \in {"bv", "cf", "cot"} : files[x].exists}) = 1

\* the main table of the extractor of the one present source
ExtractedAlone ==
  IF files.bv.exists THEN BvOf(files).main
  ELSE IF files.cf.exists THEN CfOf(files).main
  ELSE CotOf(files).main

Unmarked(df) == drop(df, Markers)

\* km_total is missing and both bounds are present
Fillable(r) ==
  "km_total" \in DOMAIN r /\ isna(r["km_total"])
    /\ notna(r["km_inicial"]) /\ notna(r["km_final"])

RepeatsKey(rows) ==
  \E i, j \in 1..Len(rows) : i # j /\ Key(rows[i]) = Key(rows[j])

\* C2 as stated: with exactly one source present the table merge_all returns,
\* the marker column set aside, has the rows and the values of the table the
\* extractor of that source returns, repeated keys and null km_total included.
C2_SingleSourceEqualsExtractor ==
  (MergeReturned /\ SingleSource) =>
    Unmarked(ret.main).rows = ExtractedAlone.rows

\* C2 as the code has it: with exactly one source present the table
\* merge_all returns, the marker column set aside, holds for each key of the
\* extractor's table the first extractor row of that key, in the extractor's
\* order, with the extractor's values, but for a null km_total whose bounds
\* are both present, which is km_final - km_inicial + 1; it is the
\* extractor's table when that table repeats no key and has no such km_total.
C2_SingleSourceFirstPerKeyBackfilled ==
  (MergeReturned /\ SingleSource) =>
    LET e == ExtractedAlone.rows
        m == Unmarked(ret.main).rows
    IN  /\ KeysOf(ret.main) = KeysOf(ExtractedAlone)
        /\ \A i \in 1..Len(m) :
             LET x == e[FirstWith(e, Key(m[i]))]
             IN  /\ DOMAIN m[i] = DOMAIN x
                 /\ \A c \in DOMAIN x \ {"km_total"} : m[i][c] = x[c]
                 /\ "km_total" \in DOMAIN x =>
                      m[i]["km_total"] =
                        IF Fillable(x)
                        THEN Num(x["km_final"].n - x["km_inicial"].n + 1)
                        ELSE x["km_total"]
        /\ \A i, j \in 1..Len(m) :
             i < j => FirstWith(e, Key(m[i])) < FirstWith(e, Key(m[j]))
        /\ (~RepeatsKey(e) /\ \A j \in 1..Len(e) : ~Fillable(e[j])) => m = e

\* one source, and its extractor's table repeats a key or has a null
\* km_total between two present bounds
C2_Witness ==
  /\ MergeReturned
  /\ SingleSource
  /\ \/ RepeatsKey(ExtractedAlone.rows)
     \/ \E j \in 1..Len(ExtractedAlone.rows) : Fillable(ExtractedAlone.rows[j])
  /\ ret.main.rows # <<>>

IsNum(x) == x.k = "num"

\* the rule of a derived km_total for the bounds i and f
KmTotalRule(i, f, t) ==
  /\ (IsNum(i) /\ IsNum(f) /\ f.n >= i.n) => t = Num(f.n - i.n + 1)
  /\ (IsNum(i) /\ IsNum(f) /\ f.n < i.n) => (isna(t) \/ t = Num(0))
  /\ ~(IsNum(t) /\ t.n < 0)

\* the joined table before the backfill of km_total
BeforeFill(fs) ==
  LET main_dfs == MainDfs(fs, BvOf(fs), CfOf(fs), CotOf(fs))
  IN  JoinAll(Head(main_dfs), Tail(main_dfs)).rows

\* C3: a km_total that is derived, by read_base_valores for a band of the
\* percentage sheet or by the backfill of merge_all for a row whose km_total
\* was null, is km_final - km_inicial + 1 when km_final >= km_inicial, is null
\* or 0 when km_final < km_inicial, and is never negative.
C3_DerivedKmTotal ==
  /\ (pc = "read_base_valores" /\ ~ret.raised
        /\ RelRows(Sheet(files.bv, REL)) # <<>>) =>
       \A i \in 1..Len(ret.main.rows) :
         KmTotalRule(ret.main.rows[i]["km_inicial"], ret.main.rows[i]["km_final"],
                     ret.main.rows[i]["km_total"])
  /\ (MergeReturned /\ SomeContributed(files)) =>
       \A i \in 1..Len(ret.main.rows) :
         LET r == ret.main.rows[i]
             b == BeforeFill(files)[FirstWith(BeforeFill(files), Key(r))]
         IN  Fillable(b) => KmTotalRule(r["km_inicial"], r["km_final"], r["km_total"])

\* every present source returned, and none returned a main table that
\* merge_all appends
NoneContributed ==
  /\ ~files.bv.exists
  /\ files.cf.exists => (~CfOf(files).raised /\ CfOf(files).main.rows = <<>>)
  /\ files.cot.exists => (~CotOf(files).raised /\ CotOf(files).main.rows = <<>>)

\* C4: when no file exists, and whenever no present source contributed a
\* main table, merge_all does not raise and returns two empty tables, the
\* context table too, whatever context record was extracted.
C4_NoContributionTwoEmptyTables ==
  (pc = "merge_all" /\ NoneContributed) =>
    /\ ~ret.raised
    /\ ret.main = EmptyFrame
    /\ ret.context = EmptyFrame

\* a present quotation source with a context record and an empty main table
C4_Witness ==
  /\ pc = "merge_all"
  /\ NoneContributed
  /\ files.cot.exists
  /\ CotOf(files).context.cols # {}
  /\ ret.context = EmptyFrame

ContextFields ==
  {"dias_uteis", "numero_cotacao", "data_cotacao", "revisao", "cliente",
   "origem", "destino", "km_rota"}

\* the value of a field in a table of one row; missing when the table does
\* not have the field
FieldOf(df, f) == IF f \in df.cols /\ df.rows # <<>> THEN df.rows[1][f] ELSE NaN

\* the context records extracted, in source order
ExtractedContexts ==
  (IF files.bv.exists THEN << BvOf(files).context >> ELSE <<>>)
  \o (IF files.cot.exists THEN << CotOf(files).context >> ELSE <<>>)

FirstNonMissing(recs, f) ==
  LET present == SelectSeq(recs, LAMBDA d : notna(FieldOf(d, f)))
  IN  IF present = <<>> THEN NaN ELSE FieldOf(Head(present), f)

MissingBvSheet(wb) == wb.exists /\ (~HasSheet(wb, VIAGEM) \/ ~HasSheet(wb, REL))

MissingCfSheet(wb) == wb.exists /\ CfReadsGeral(wb) /\ ~HasSheet(wb, GERAL)

MissingCotSheet(wb) ==
  wb.exists /\ (~HasSheet(wb, COTACAO) \/ ~HasSheet(wb, BASE) \/ ~HasSheet(wb, FRETE_PESO))

\* C6: for a workbook that opens, an expected sheet that is absent is never
\* fatal: the extractor of that workbook does not raise, and merge_all
\* returns its pair of tables.
C6_MissingSheetNotFatal ==
  /\ (pc = "read_base_valores" /\ MissingBvSheet(files.bv)) => ~ret.raised
  /\ (pc = "read_calculo_frete" /\ MissingCfSheet(files.cf)) => ~ret.raised
  /\ (pc = "read_cotacao" /\ MissingCotSheet(files.cot)) => ~ret.raised
  /\ (pc = "merge_all"
        /\ (MissingBvSheet(files.bv) \/ MissingCfSheet(files.cf)
              \/ MissingCotSheet(files.cot))) => ~ret.raised

\* the keys of the main tables of the present sources
SourceKeys ==
  (IF files.bv.exists THEN KeysOf(BvOf(files).main) ELSE {})
  \cup (IF files.cf.exists THEN KeysOf(CfOf(files).main) ELSE {})
  \cup (IF files.cot.exists THEN KeysOf(CotOf(files).main) ELSE {})

\* C7: the keys of the table merge_all returns are the union of the keys of
\* the main tables of the sources: a row no other source matches is kept,
\* from the earlier source and from the later one, and no key is added.
C7_KeysAreUnionOfSources ==
  MergeReturned => KeysOf(ret.main) = SourceKeys

\* two sources contributed; one key is held by the earlier only, one by the
\* later only
C7_Witness ==
  /\ MergeReturned
  /\ files.bv.exists /\ files.cf.exists
  /\ \E k \in KeysOf(ret.main) :
       k \in KeysOf(BvOf(files).main) /\ k \notin KeysOf(CfOf(files).main)
  /\ \E k \in KeysOf(ret.main) :
       k \notin KeysOf(BvOf(files).main) /\ k \in KeysOf(CfOf(files).main)

Marked(df, r, c) == c \in df.cols /\ r[c] = True

\* C8: in every row of the table merge_all returns, the marker of a source is
\* true exactly when the extractor of that source produced a main-table row
\* of the row's key; otherwise the marker is missing or the column is absent.
C8_MarkerIffSourceHasKey ==
  MergeReturned =>
    \A i \in 1..Len(ret.main.rows) :
      LET r == ret.main.rows[i]
      IN  /\ Marked(ret.main, r, "_source_bv") <=>
               (files.bv.exists /\ Key(r) \in KeysOf(BvOf(files).main))
          /\ Marked(ret.main, r, "_source_cf") <=>
               (files.cf.exists /\ Key(r) \in KeysOf(CfOf(files).main))
          /\ Marked(ret.main, r, "_source_cot") <=>
               (files.cot.exists /\ Key(r) \in KeysOf(CotOf(files).main))

\* one row is marked by two sources, another by the later of them only
C8_Witness ==
  /\ MergeReturned
  /\ \E i, j \in 1..Len(ret.main.rows) :
       /\ Marked(ret.main, ret.main.rows[i], "_source_bv")
       /\ Marked(ret.main, ret.main.rows[i], "_source_cf")
       /\ ~Marked(ret.main, ret.main.rows[j], "_source_bv")
       /\ Marked(ret.main, ret.main.rows[j], "_source_cf")
       /\ "_source_bv" \in ret.main.cols

PerVehicleSheetsMissing(wb) ==
  \A i \in 1..Len(wb.sheets) : wb.sheets[i].name \notin DOMAIN SHEET_TO_VEHICLE

\* the consolidated sheet has a data row whose two bounds are numbers and a
\* vehicle-name group the normalizer resolves
ValidGeral(wb) ==
  /\ HasSheet(wb, GERAL)
  /\ \E i \in 5..Len(Sheet(wb, GERAL).rows) :
       IsNum(Sheet(wb, GERAL).rows[i][1]) /\ IsNum(Sheet(wb, GERAL).rows[i][2])
  /\ \E g \in 1..Len(GeralGroups(Sheet(wb, GERAL).ncols)) :
       GeralVehicle(Sheet(wb, GERAL), GeralGroups(Sheet(wb, GERAL).ncols)[g]) # Unresolved

\* C9: read_calculo_frete returns the rows of the per-vehicle sheets when they
\* yield any, and the rows of FRETE PESO - GERAL exactly when they yield
\* none; with every per-vehicle sheet missing and a consolidated sheet that
\* has a data row of parseable bounds and a resolved vehicle group, the table
\* returned is not empty and its rows are those of the consolidated sheet.
C9_GeralFallback ==
  /\ (pc = "read_calculo_frete" /\ ~ret.raised /\ CfPerSheetRows(files.cf) # <<>>) =>
       ret.main = DataFrame(CfPerSheetRows(files.cf))
  /\ (pc = "read_calculo_frete" /\ ~ret.raised /\ CfPerSheetRows(files.cf) = <<>>) =>
       ret.main = DataFrame(GeralRows(Sheet(files.cf, GERAL)))
  /\ (pc = "read_calculo_frete" /\ PerVehicleSheetsMissing(files.cf)
        /\ ValidGeral(files.cf)) =>
       /\ ~ret.raised
       /\ ret.main.rows # <<>>
       /\ ret.main = DataFrame(GeralRows(Sheet(files.cf, GERAL)))

\* C10: every vehicle_type of the main table of each extractor, and of the
\* table merge_all returns, is a canonical vehicle type, on the primary path
\* and on every fallback path.
C10_VehicleTypeCanonical ==
  (pc # "idle" /\ ~ret.raised /\ "vehicle_type" \in ret.main.cols) =>
    \A i \in 1..Len(ret.main.rows) :
      /\ ret.main.rows[i]["vehicle_type"].k = "str"
      /\ ret.main.rows[i]["vehicle_type"].s \in Canonical

\* both bounds of a row are present and in order
BandInOrder(r) ==
  /\ IsNum(r["km_inicial"]) /\ IsNum(r["km_final"])
  /\ r["km_inicial"].n <= r["km_final"].n

\* the main tables merge_all joins: the table of each present source whose
\* extractor returned rows
TablesJoined ==
  (IF files.bv.exists /\ BvOf(files).main.rows # <<>> THEN << BvOf(files).main >> ELSE <<>>)
  \o (IF files.cf.exists /\ CfOf(files).main.rows # <<>> THEN << CfOf(files).main >> ELSE <<>>)
  \o (IF files.cot.exists /\ CotOf(files).main.rows # <<>> THEN << CotOf(files).main >> ELSE <<>>)

\* C11: every row that enters the join of merge_all, and every row of the
\* table merge_all returns, has km_inicial and km_final present with
\* km_inicial <= km_final; the extractors discard the rows whose bounds are
\* missing, on the quotation extractor's fallback path too.
C11_BoundsPresentInOrder ==
  MergeReturned =>
    /\ \A i \in 1..Len(ret.main.rows) : BandInOrder(ret.main.rows[i])
    /\ \A t \in 1..Len(TablesJoined) :
         \A i \in 1..Len(TablesJoined[t].rows) : BandInOrder(TablesJoined[t].rows[i])

\* the rule of the slug: lowercase, each space an underscore, each % the
\* letters pct, the characters / ( ) : . - removed, 50 characters kept
RuleSlug(s) ==
  LET r == replace(replace(replace(replace(replace(replace(replace(replace(
             MapChars(s, lower), " ", "_"), "%", "pct"), "/", ""), "(", ""),
             ")", ""), ":", ""), ".", ""), "-", "")
  IN  IF Len(r) > 50 THEN SubSeq(r, 1, 50) ELSE r

\* C12: _slug(label) is the rule applied in order (lowercase; space to
\* underscore; % to pct; / ( ) : . - removed; truncated to 50 characters), so
\* a second call on the label gives the same slug and no slug is longer
\* than 50 characters.
C12_SlugIsTheRule ==
  pc = "_slug" =>
    /\ ret.value = RuleSlug(arg)
    /\ ret.value = _slug(arg)
    /\ Len(ret.value) <= 50

\* the data rows of the percentage sheet, read by name, whose two bounds
\* are numbers
RelBands(sh) ==
  SelectSeq(Tail(sh.rows),
    LAMBDA row : /\ IsNum(row[ColumnOf(ColumnNames(sh), "KM INICIAL")])
                 /\ IsNum(row[ColumnOf(ColumnNames(sh), "KM FINAL")]))

\* r is the row of the band row and the vehicle column c of the sheet: it
\* has the band's bounds, the vehicle, the percentage (null for a cell that
\* is not a number) and the vehicle's fixed-cost metrics
RowOfPair(wb, sh, row, c, r) ==
  /\ r["vehicle_type"] = Str(ColumnNames(sh)[c])
  /\ r["km_inicial"] = row[ColumnOf(ColumnNames(sh), "KM INICIAL")]
  /\ r["km_final"] = row[ColumnOf(ColumnNames(sh), "KM FINAL")]
  /\ IF IsNum(row[c]) THEN r["pct_frete_ida"] = row[c] ELSE isna(r["pct_frete_ida"])
  /\ \A i \in 1..Len(VehiclePivot(VehicleMetrics(wb)).rows) :
       LET p == VehiclePivot(VehicleMetrics(wb)).rows[i]
       IN  p["vehicle_type"] = r["vehicle_type"] =>
             \A m \in DOMAIN p : m \in DOMAIN r /\ r[m] = p[m]

\* C13: when the percentage sheet resolves a KM band, the main table of
\* read_base_valores has a row for every pair of a band of parseable bounds
\* and a canonical vehicle column, with a null percentage when the pair's
\* cell is blank or not a number, and the row carries the vehicle's
\* fixed-cost metric columns.
C13_RowForEveryBandVehicle ==
  (pc = "read_base_valores" /\ ~ret.raised
     /\ RelByName(Sheet(files.bv, REL))
     /\ RelBands(Sheet(files.bv, REL)) # <<>>) =>
    \A b \in 1..Len(RelBands(Sheet(files.bv, REL))) :
      \A j \in 1..Len(RelNamedVehicleCols(Sheet(files.bv, REL))) :
        \E i \in 1..Len(ret.main.rows) :
          RowOfPair(files.bv, Sheet(files.bv, REL), RelBands(Sheet(files.bv, REL))[b],
                    RelNamedVehicleCols(Sheet(files.bv, REL))[j], ret.main.rows[i])

\* the rows of the sheet whose column 0 is the label DIAS ÚTEIS:
Labelled(sh) == {i \in 1..Len(sh.rows) : sh.rows[i][0] = Str("DIAS ÚTEIS:")}

\* the value cell of the first labelled row
FirstLabelledCell(sh) ==
  sh.rows[CHOOSE i \in Labelled(sh) : \A j \in Labelled(sh) : i <= j][1]

\* C14: the dias_uteis of the context record of read_base_valores is the
\* integer in column 1 of the first row of VIAGEM labelled DIAS ÚTEIS:,
\* wherever that row is; without such a row, or with a value cell that is
\* blank or not a number, dias_uteis is null and no number stands in for it.
C14_DiasUteisOrNull ==
  (pc = "read_base_valores" /\ ~ret.raised) =>
    IF Labelled(Sheet(files.bv, VIAGEM)) # {}
         /\ IsNum(FirstLabelledCell(Sheet(files.bv, VIAGEM)))
    THEN FieldOf(ret.context, "dias_uteis") = FirstLabelledCell(Sheet(files.bv, VIAGEM))
    ELSE isna(FieldOf(ret.context, "dias_uteis"))

Same(a, b) == (isna(a) /\ isna(b)) \/ a = b

CfContributed == files.cf.exists /\ CfOf(files).main.rows # <<>>

CotContributed == files.cot.exists /\ CotOf(files).main.rows # <<>>

\* the key k is of the computed-freight table and of no earlier table
CfOnly(k) ==
  /\ files.bv.exists /\ CfContributed
  /\ k \in KeysOf(CfOf(files).main) /\ k \notin KeysOf(BvOf(files).main)

\* the key k is of the quotation table and of no earlier table
CotOnly(k) ==
  /\ CotContributed
  /\ files.bv.exists \/ CfContributed
  /\ k \in KeysOf(CotOf(files).main)
  /\ files.bv.exists => k \notin KeysOf(BvOf(files).main)
  /\ CfContributed => k \notin KeysOf(CfOf(files).main)

\* the columns of the table the quotation table is joined to
ColsBeforeCot ==
  (IF files.bv.exists THEN BvOf(files).main.cols \cup {"_source_bv"} ELSE {})
  \cup (IF CfContributed THEN CfOf(files).main.cols \cup {"_source_cf"} ELSE {})

\* the returned row r has every value of the later source's row x
Unchanged(x, r) == \A c \in DOMAIN x : c \in DOMAIN r /\ Same(r[c], x[c])

\* the returned row r has the values of the later source's row x in the
\* columns the earlier table does not have; in the columns it has, the
\* later value is dropped: km_total is computed from the bounds when both
\* are present, any other such column is null
LaterValuesButShared(x, r, earlier) ==
  \A c \in DOMAIN x :
    /\ c \in DOMAIN r
    /\ (c \in KeyCols \/ c \notin earlier) => Same(r[c], x[c])
    /\ (c \in earlier \ KeyCols /\ c # "km_total") => isna(r[c])
    /\ (c = "km_total" /\ c \in earlier) =>
         IF IsNum(x["km_inicial"]) /\ IsNum(x["km_final"])
         THEN r[c] = Num(x["km_final"].n - x["km_inicial"].n + 1)
         ELSE isna(r[c])

\* C15 as stated: for a key a later source produced and no earlier source
\* produced, the row merge_all returns has every value the later source
\* extracted for it unchanged, the columns the earlier table also has
\* (km_total, source) included; its km_total is the one read from the later
\* source's sheet.
C15_LaterOnlyRowUnchanged ==
  MergeReturned =>
    \A i \in 1..Len(ret.main.rows) :
      LET r == ret.main.rows[i]
      IN  /\ CfOnly(Key(r)) =>
               Unchanged(CfOf(files).main.rows[FirstWith(CfOf(files).main.rows, Key(r))], r)
          /\ CotOnly(Key(r)) =>
               Unchanged(CotOf(files).main.rows[FirstWith(CotOf(files).main.rows, Key(r))], r)

\* C15 as the code has it: for a key a later source produced and no earlier
\* source produced, the row merge_all returns has the later source's values
\* in the columns the earlier table does not have; the later source's value
\* of a column the earlier table also has is discarded: the row's km_total
\* is km_final - km_inicial + 1 computed from the bounds (null when a bound
\* is missing), and any other such column (source) is null.
C15_LaterOnlyRowLosesSharedColumns ==
  MergeReturned =>
    \A i \in 1..Len(ret.main.rows) :
      LET r == ret.main.rows[i]
      IN  /\ CfOnly(Key(r)) =>
               LaterValuesButShared(
                 CfOf(files).main.rows[FirstWith(CfOf(files).main.rows, Key(r))], r,
                 BvOf(files).main.cols \cup {"_source_bv"})
          /\ CotOnly(Key(r)) =>
               LaterValuesButShared(
                 CotOf(files).main.rows[FirstWith(CotOf(files).main.rows, Key(r))], r,
                 ColsBeforeCot)

\* a key of the quotation table alone, joined to the fixed-cost table: the
\* row has the quotation's freight value, a km_total that is not the one the
\* quotation sheet supplied, and no source
C15_Witness ==
  /\ MergeReturned
  /\ files.bv.exists
  /\ \E i \in 1..Len(ret.main.rows) :
       LET r == ret.main.rows[i]
           x == CotOf(files).main.rows[FirstWith(CotOf(files).main.rows, Key(r))]
       IN  /\ CotOnly(Key(r))
           /\ IsNum(x["km_total"]) /\ IsNum(r["km_total"]) /\ r["km_total"] # x["km_total"]
           /\ IsNum(x["frete_peso_total_cotacao"])
           /\ r["frete_peso_total_cotacao"] = x["frete_peso_total_cotacao"]
           /\ x["source"] = Str("COTAÇÃO") /\ isna(r["source"])

====
